---------------------------- MODULE Spec2Model ----------------------------
(***************************************************************************)
(* SignStream: geometric pose classification and temporal stabilization.   *)
(*                                                                         *)
(* The module holds these state machines over one set of variables:        *)
(*   Spec          the useStablePrediction hook (sliding-window debounce), *)
(*   SpecEngine    the GestureEngine class (per-finger and thumb           *)
(*                 hysteresis),                                            *)
(*   SpecTracking  the detectionData of useHandTracking, in its            *)
(*                 GestureLogic variant and in its VectorEngine (hybrid)   *)
(*                 variant,                                                *)
(*   SpecApp       App with the consecutive-frame policy,                  *)
(*   SpecPolicies  that policy and useStablePrediction on the same frames, *)
(*   SpecPure      analyze and matchPose called repeatedly on one instance,*)
(*   SpecLoop      the detection loop of useHandTracking,                  *)
(*   SpecBasis     VectorEngine.computeHandBasis,                          *)
(*   SpecService   the RecognitionService singleton and the train callback *)
(*                 of useMLPrediction,                                     *)
(*   SpecMount     the initialize effect of two useMLPrediction instances, *)
(*   SpecML        one useMLPrediction instance with its three effects,    *)
(*   SpecMLFair    SpecML with the timer callback eventually run.          *)
(* Each specification moves its own variables and leaves the others at     *)
(* their initial value.                                                    *)
(*                                                                         *)
(* Numbers: thresholds of the stabilizer are in tenths, angles in degrees, *)
(* distances of the thumb in tenths of the palm size, zDiff in             *)
(* thousandths, finger distances in hundredths of the knuckle distance,    *)
(* vector components in hundredths, scores in millionths, confidences of   *)
(* the classifier in hundredths, so that every                             *)
(* comparison of the source is an exact integer comparison.                *)
(***************************************************************************)
EXTENDS Integers, Sequences, FiniteSets, TLC

VARIABLES
    \* useStablePrediction
    stablePrediction,   \* useState: the value the hook returns
    bufferRef,          \* useRef: the history of raw predictions
    deps,               \* the dependency array of the last render, or NoDeps
    ranEffect,          \* whether the last render ran the effect
    prevStable,         \* the stablePrediction the last effect run started from
    steady,             \* every render since mount passed the same windowSize and threshold
    runLen,             \* consecutive renders (capped) with the current rawPrediction
    noisePos,           \* how far the renders since mount follow NoiseScript, or -1
    \* GestureEngine
    landmarks,          \* whether this.landmarks is non-null
    worldLandmarks,     \* whether this.worldLandmarks is non-null
    fingerStates,       \* Map<string, FingerState>, "none" for a missing key
    thumbState,         \* this.thumbState
    call,               \* the last call of the engine: its arguments and its return
    lastReturn,         \* per finger, what its last getFingerState call returned
    hystPos,            \* per finger, how far its last calls follow the pattern
                        \* above entry, between exit and entry, above entry
    \* useHandTracking
    pipeline,           \* which variant of the hook is mounted
    results,            \* useState: the last Results delivered by onResults
    match,              \* the return of the last analyze / matchPose call
    detectionData,      \* useMemo: what the hook reports
    extHist,            \* the index finger's classifications on the last frames,
                        \* as far as these frames follow RatioScript
    prevConfidence,     \* detectionData.confidence of the render before the last
    \* App with the consecutive-frame policy
    isReady,            \* useState of the hook: some Results have arrived
    targetIndex,        \* useState: the index of the target letter in ALPHABET
    currentDetection,   \* analyzePose().detectedLetter of the last detectionData
    detectedLetter,     \* useState: the letter App displays
    lastFrameLetter,    \* useRef
    frameCount,         \* useRef
    frameRun,           \* consecutive frames (capped) with the current raw detection
    shownAt,            \* frameRun when detectedLetter last became a new letter
    \* GestureLogic.analyze and VectorEngine.matchPose called on their own
    returned,           \* per input, the returns its calls have produced so far
    \* the detection loop of useHandTracking
    effect,             \* "live" (set up) or "cleaned" (the cleanup has run)
    timer,              \* whether the setTimeout of the live effect is pending
    frames,             \* the requestAnimationFrame ids whose callback is pending
    animationRef,       \* useRef: the last id requestAnimationFrame returned, 0 for null
    nextFrame,          \* the id the next requestAnimationFrame returns
    inFlight,           \* hands.send calls that have not settled
    sent,               \* hands.send calls so far (capped)
    isRunningRef,       \* useRef
    \* VectorEngine.computeHandBasis
    points,             \* landmarks 0, 5 and 17 of the array passed in
    basis,              \* what computeHandBasis returned for them
    \* RecognitionService (the singleton of RecognitionServiceClass)
    serviceIsReady,     \* its field isReady
    isInitializing,     \* its field
    classifier,         \* 0 for null, else the number of knn.create() calls so far
    examples,           \* per label, the examples the classifier holds
    confidenceThreshold,\* its field, in hundredths
    tensors,            \* per tensor created by train or predict, its dispose() calls
    predicting,         \* the predict calls that have not settled
    svcCall,            \* the last step of a call on the service
    \* useMLPrediction, per hook instance
    hookMounted,        \* whether the instance is mounted
    mlIsReady,          \* useState isReady
    mlLandmarks,        \* the worldLandmarks argument of the last render, 0 for null
    prediction,         \* useState prediction
    trainingStats,      \* useState trainingStats
    initThen,           \* the then-callbacks of initialize() that have not run
    clearTimer          \* whether the setTimeout of the clear effect is pending

stableVars ==
    <<stablePrediction, bufferRef, deps, ranEffect, prevStable, steady, runLen, noisePos>>
engineVars ==
    <<landmarks, worldLandmarks, fingerStates, thumbState, call, lastReturn, hystPos>>
trackVars  == <<pipeline, results, match, detectionData, extHist, prevConfidence>>
appVars ==
    <<isReady, targetIndex, currentDetection, detectedLetter, lastFrameLetter,
      frameCount, frameRun, shownAt>>
pureVars == <<returned>>
loopVars ==
    <<effect, timer, frames, animationRef, nextFrame, inFlight, sent, isRunningRef>>
basisVars == <<points, basis>>
serviceVars ==
    <<serviceIsReady, isInitializing, classifier, examples, confidenceThreshold,
      tensors, predicting, svcCall>>
hookVars ==
    <<hookMounted, mlIsReady, mlLandmarks, prediction, trainingStats, initThen,
      clearTimer>>
mlVars == <<serviceVars, hookVars>>
otherVars == <<appVars, pureVars, loopVars, basisVars, mlVars>>
vars == <<stableVars, engineVars, trackVars, otherVars>>

Null == "null"

Min(a, b) == IF a < b THEN a ELSE b

(***************************************************************************)
(* useStablePrediction                                                     *)
(***************************************************************************)
Labels == {"A", "B"}
RawPredictions == Labels \cup {Null}
WindowSizes == {3, 5}
Thresholds == {4, 6, 10}
NoDeps == <<>>

\* The cap of the run counter.
MaxRun == 6

\* The raw label sequence of the single-frame-noise scenario.
NoiseScript == <<"A", "A", "A", "A", "B", "A", "A", "A">>

\* Steps 1 and 2 of the effect: push, then one shift when over the window.
PushTrim(buf, rawPrediction, windowSize) ==
    LET pushed == Append(buf, rawPrediction)
    IN  IF Len(pushed) > windowSize THEN Tail(pushed) ELSE pushed

NoCounts ==
    [counts |-> [l \in Labels |-> 0], maxCount |-> 0,
     mostFrequent |-> Null, nullCount |-> 0]

\* A mutant of CountFrequencies: mostFrequent is the last label seen.
RECURSIVE CountFrequenciesLastSeen(_, _, _)
CountFrequenciesLastSeen(buf, i, acc) ==
    IF i > Len(buf) THEN acc
    ELSE LET pred == buf[i]
         IN  IF pred = Null
             THEN CountFrequenciesLastSeen(buf, i + 1, [acc EXCEPT !.nullCount = @ + 1])
             ELSE LET c == acc.counts[pred] + 1
                  IN  CountFrequenciesLastSeen(buf, i + 1,
                          [acc EXCEPT !.counts[pred] = c, !.maxCount = c,
                                      !.mostFrequent = pred])

\* Step 3 of the effect: the loop over the buffer, from entry i on.
RECURSIVE CountFrequencies(_, _, _)
CountFrequencies(buf, i, acc) ==
    IF i > Len(buf) THEN acc
    ELSE LET pred == buf[i]
         IN  IF pred = Null
             THEN CountFrequencies(buf, i + 1, [acc EXCEPT !.nullCount = @ + 1])
             ELSE LET c == acc.counts[pred] + 1
                      counted == [acc EXCEPT !.counts[pred] = c]
                  IN  CountFrequencies(buf, i + 1,
                          IF c > acc.maxCount
                          THEN [counted EXCEPT !.maxCount = c, !.mostFrequent = pred]
                          ELSE counted)

\* A mutant of NextPrediction: without consensus the prediction is cleared.
NextPredictionNoRetain(buf, stable, threshold) ==
    LET f == CountFrequencies(buf, 1, NoCounts)
        total == Len(buf)
    IN  IF f.mostFrequent # Null /\ f.maxCount * 10 >= threshold * total
        THEN f.mostFrequent
        ELSE Null

\* Step 4 of the effect: maxCount / total >= threshold, threshold in tenths.
NextPrediction(buf, stable, threshold) ==
    LET f == CountFrequencies(buf, 1, NoCounts)
        total == Len(buf)
    IN  IF f.mostFrequent # Null /\ f.maxCount * 10 >= threshold * total
        THEN f.mostFrequent
        ELSE IF f.nullCount * 10 >= threshold * total
             THEN Null
             ELSE stable

\* The dependency array [rawPrediction, windowSize, threshold]: the effect
\* runs after the first render and after a render that changes one of them.
DepsChanged(old, new) == old = NoDeps \/ old # new

\* One render of the hook with the given arguments, its effect included:
\* what it does to the hook's own state.
RenderEffect(rawPrediction, windowSize, threshold) ==
    LET new == <<rawPrediction, windowSize, threshold>>
        run == DepsChanged(deps, new)
        buf == PushTrim(bufferRef, rawPrediction, windowSize)
    IN  /\ bufferRef' = IF run THEN buf ELSE bufferRef
        /\ stablePrediction' =
               IF run THEN NextPrediction(buf, stablePrediction, threshold)
               ELSE stablePrediction
        /\ deps' = new
        /\ ranEffect' = run
        /\ prevStable' = IF run THEN stablePrediction ELSE prevStable
        /\ steady' = (steady /\ (deps = NoDeps \/ (deps[2] = windowSize /\ deps[3] = threshold)))
        /\ runLen' = IF deps # NoDeps /\ deps[1] = rawPrediction
                     THEN Min(runLen + 1, MaxRun) ELSE 1
        /\ noisePos' = IF /\ noisePos >= 0
                          /\ noisePos < Len(NoiseScript)
                          /\ threshold = 6
                          /\ rawPrediction = NoiseScript[noisePos + 1]
                       THEN noisePos + 1 ELSE -1

\* One render of the hook in a component that holds nothing else.
Render(rawPrediction, windowSize, threshold) ==
    /\ RenderEffect(rawPrediction, windowSize, threshold)
    /\ UNCHANGED <<engineVars, trackVars, otherVars>>

StableInit ==
    /\ stablePrediction = Null
    /\ bufferRef = <<>>
    /\ deps = NoDeps
    /\ ranEffect = FALSE
    /\ prevStable = Null
    /\ steady = TRUE
    /\ runLen = 0
    /\ noisePos = 0

(***************************************************************************)
(* GestureEngine                                                           *)
(***************************************************************************)
\* The fingers getFingerState is called for. The four fingers of the source
\* run the same code and differ in their landmark indices only.
Fingers == {"Index", "Pinky"}

\* calculateAngle yields NaN for a zero-length segment; its angles are in
\* 0..180, and -1 stands for NaN.
NaN == -1
\* The PIP angles (degrees) of the smoothed landmarks.
Angles == {130, 140, 150, 155, 160, NaN}
\* Tip-to-wrist distances, the knuckle-to-wrist distance being 100.
FoldDists == {100, 120}
\* tTip.z - iMcp.z in thousandths.
ZDiffs == {-20, -10, 0, 20, 30}
\* Thumb tip distances in tenths of the palm size.
RingDists == {2, 10}
IndexDists == {2, 7}
ThumbAngles == {140, 160}

\* A comparison of the source with a possibly NaN left side is false on NaN.
Gt(a, b) == a # NaN /\ a > b
Le(a, b) == a # NaN /\ a <= b

\* fingerStates.get(fingerName) || 'Closed'
LastState(states, fingerName) ==
    IF states[fingerName] = "none" THEN "Closed" ELSE states[fingerName]

\* A mutant of ExtendThresh: no exit threshold.
ExtendThreshNoHysteresis(lastState) == 155

ExtendThresh(lastState) == IF lastState = "Extended" THEN 140 ELSE 155

\* The classification of getFingerState once the landmarks are there.
FingerStateOf(lastState, pipAngle, tipDist, mcpDist) ==
    LET extendThresh == ExtendThresh(lastState)
    IN  IF Gt(pipAngle, extendThresh) THEN "Extended"
        ELSE IF Le(pipAngle, extendThresh) /\ tipDist * 10 > mcpDist * 11
             THEN "Folded"
             ELSE "Closed"

\* The pattern above entry (155), between exit (140) and entry, above entry.
HystStep(pos, pipAngle) ==
    IF pos = 1 /\ Gt(pipAngle, 140) /\ Le(pipAngle, 155) THEN 2
    ELSE IF pos = 2 /\ Gt(pipAngle, 155) THEN 3
    ELSE IF Gt(pipAngle, 155) THEN 1
    ELSE 0

\* update(results): results.multiHandLandmarks[0] and
\* results.multiHandWorldLandmarks[0] are there or not. The smoothed
\* coordinates are not kept: a getter's arguments are their measures.
Update(hasLandmarks, hasWorld) ==
    /\ IF ~hasLandmarks
       THEN landmarks' = FALSE /\ worldLandmarks' = FALSE
       ELSE IF landmarks /\ worldLandmarks /\ hasWorld
            THEN landmarks' = TRUE /\ worldLandmarks' = TRUE
            ELSE landmarks' = TRUE /\ worldLandmarks' = hasWorld
    /\ call' = [op |-> "update", hand |-> hasLandmarks]
    /\ UNCHANGED <<fingerStates, thumbState, lastReturn, hystPos>>
    /\ UNCHANGED <<stableVars, trackVars, otherVars>>

\* getFingerState(fingerName), the PIP angle and the distances being those
\* of the current worldLandmarks.
GetFingerState(fingerName, pipAngle, tipDist) ==
    LET lastState == LastState(fingerStates, fingerName)
        ret == IF worldLandmarks
               THEN FingerStateOf(lastState, pipAngle, tipDist, 100)
               ELSE "Closed"
    IN  /\ fingerStates' = IF worldLandmarks
                           THEN [fingerStates EXCEPT ![fingerName] = ret]
                           ELSE fingerStates
        /\ call' = [op |-> "getFingerState", hand |-> worldLandmarks,
                    finger |-> fingerName, pipAngle |-> pipAngle,
                    tipDist |-> tipDist, lastState |-> lastState,
                    prevReturn |-> lastReturn[fingerName], ret |-> ret]
        /\ lastReturn' = [lastReturn EXCEPT ![fingerName] = ret]
        /\ hystPos' = [hystPos EXCEPT ![fingerName] =
                           IF worldLandmarks THEN HystStep(@, pipAngle) ELSE 0]
        /\ UNCHANGED <<landmarks, worldLandmarks, thumbState>>
        /\ UNCHANGED <<stableVars, trackVars, otherVars>>

\* A mutant of OverZThresh: entering Over is as loose as staying Over.
OverZThreshLoose(isOver) == 20

OverZThresh(isOver) == IF isOver THEN 20 ELSE -10

UnderZThresh(isUnder) == IF isUnder THEN -10 ELSE 20

\* The classification of getThumbState once the landmarks are there.
ThumbStateOf(state, zDiff, palmSize, distToRing, distToIndex, thumbAngle) ==
    LET isOver == state = "Over"
        isUnder == state = "Under"
        isCrossing == distToRing * 10 < distToIndex * 13
    IN  IF isCrossing /\ distToRing * 10 < palmSize * 9 /\ zDiff < OverZThresh(isOver)
        THEN "Over"
        ELSE IF distToIndex * 10 < palmSize * 6 /\ zDiff > UnderZThresh(isUnder)
        THEN "Under"
        ELSE IF thumbAngle > 150 /\ distToIndex * 10 > palmSize * 3
        THEN "Extended"
        ELSE "Side"

\* getThumbState(), the measures being those of the current worldLandmarks.
GetThumbState(zDiff, distToRing, distToIndex, thumbAngle) ==
    LET ret == IF worldLandmarks
               THEN ThumbStateOf(thumbState, zDiff, 10, distToRing, distToIndex, thumbAngle)
               ELSE "Closed"
    IN  /\ thumbState' = IF worldLandmarks THEN ret ELSE thumbState
        /\ call' = [op |-> "getThumbState", hand |-> worldLandmarks,
                    zDiff |-> zDiff, distToRing |-> distToRing,
                    distToIndex |-> distToIndex, thumbAngle |-> thumbAngle,
                    was |-> thumbState, ret |-> ret]
        /\ UNCHANGED <<landmarks, worldLandmarks, fingerStates, lastReturn, hystPos>>
        /\ UNCHANGED <<stableVars, trackVars, otherVars>>

EngineInit ==
    /\ landmarks = FALSE
    /\ worldLandmarks = FALSE
    /\ fingerStates = [f \in Fingers |-> "none"]
    /\ thumbState = "Side"
    /\ call = [op |-> "none"]
    /\ lastReturn = [f \in Fingers |-> "none"]
    /\ hystPos = [f \in Fingers |-> 0]

(***************************************************************************)
(* GestureLogic                                                            *)
(*                                                                         *)
(* A landmark array is kept by its length n and, when it has the 21 points *)
(* of a hand, by the measures the classifier takes of it: distances to the *)
(* wrist in hundredths of the knuckle's distance, distances between        *)
(* fingertips in tenths of the distance between the index and middle       *)
(* knuckles.                                                               *)
(***************************************************************************)
LogicFingers == {"index", "middle", "ring", "pinky"}
\* Tip-to-wrist distances of the index finger: ratios 1.0, 1.2 and 1.35.
IndexTipDists == {100, 120, 135}
\* Tip-to-wrist distances of the other fingers.
TipDists == {100, 135}
\* Thumb tip to index knuckle, the wrist-to-index-knuckle distance being 100.
ThumbTipDists == {50, 90}
\* Index tip to middle tip, the knuckles being 10 apart.
SpreadDists == {5, 15, 20}
\* Thumb tip to index tip, the knuckles being 10 apart.
PinchDists == {10, 18}
\* results.multiHandedness[0].score in hundredths.
Confidences == {95}
\* The lengths of the arrays that are no hand of 21 points.
ShortLengths == {0, 20}

\* The tip-to-wrist distances of the index finger on the frames of the
\* ratio scenario 1.35, 1.2, 1.35.
RatioScript == <<135, 120, 135>>

\* Reading a point the array does not have and then a coordinate of it.
Raised == [raised |-> "TypeError"]

\* isExtended of getExtensions.
IsExtended(tipDist, mcpDist) == tipDist * 10 > mcpDist * 12

GetExtensions(lm) ==
    [thumb  |-> lm.thumbTipToIndex * 10 > 100 * 7,
     index  |-> IsExtended(lm.tipDist["index"], 100),
     middle |-> IsExtended(lm.tipDist["middle"], 100),
     ring   |-> IsExtended(lm.tipDist["ring"], 100),
     pinky  |-> IsExtended(lm.tipDist["pinky"], 100)]

\* tipDistance < fingerBaseDist * 1.8
IsThumbIndexTouching(lm) == lm.pinchDist * 10 < 10 * 18

\* A mutant of Classify: a fist whose thumb is not extended is an S.
ClassifyFistByThumb(ext, spread, thumbIndexTouching) ==
    LET fingerCount ==
            Cardinality({f \in LogicFingers : ext[f]})
        hit(letter) == [match |-> letter, score |-> 1000000]
    IN  IF thumbIndexTouching /\ ext.middle /\ ext.ring /\ ext.pinky THEN hit("F")
        ELSE IF fingerCount = 4 THEN hit("B")
        ELSE IF fingerCount = 3 /\ ext.index /\ ext.middle /\ ext.ring /\ ~ext.pinky
        THEN hit("W")
        ELSE IF fingerCount = 2 /\ ext.index /\ ext.middle /\ ~ext.ring /\ ~ext.pinky
        THEN IF spread < 8 THEN hit("R")
             ELSE IF spread > 15 THEN hit("V")
             ELSE hit("U")
        ELSE IF fingerCount = 1 /\ ext.pinky /\ ~ext.ring /\ ~ext.middle /\ ~ext.index
        THEN hit(IF ext.thumb THEN "Y" ELSE "I")
        ELSE IF fingerCount = 1 /\ ext.index /\ ~ext.middle
        THEN hit(IF ext.thumb THEN "L" ELSE "D")
        ELSE IF fingerCount = 0 THEN hit(IF ext.thumb THEN "A" ELSE "S")
        ELSE [match |-> Null, score |-> 0]

\* The detection logic of analyze, most specific first; spread is
\* getFingerSpread's ratio in tenths, the knuckles being 10 apart.
Classify(ext, spread, thumbIndexTouching) ==
    LET fingerCount ==
            Cardinality({f \in LogicFingers : ext[f]})
        hit(letter) == [match |-> letter, score |-> 1000000]
    IN  IF thumbIndexTouching /\ ext.middle /\ ext.ring /\ ext.pinky THEN hit("F")
        ELSE IF fingerCount = 4 THEN hit("B")
        ELSE IF fingerCount = 3 /\ ext.index /\ ext.middle /\ ext.ring /\ ~ext.pinky
        THEN hit("W")
        ELSE IF fingerCount = 2 /\ ext.index /\ ext.middle /\ ~ext.ring /\ ~ext.pinky
        THEN IF spread < 8 THEN hit("R")
             ELSE IF spread > 15 THEN hit("V")
             ELSE hit("U")
        ELSE IF fingerCount = 1 /\ ext.pinky /\ ~ext.ring /\ ~ext.middle /\ ~ext.index
        THEN hit(IF ext.thumb THEN "Y" ELSE "I")
        ELSE IF fingerCount = 1 /\ ext.index /\ ~ext.middle
        THEN hit(IF ext.thumb THEN "L" ELSE "D")
        ELSE IF fingerCount = 0 THEN hit("A")
        ELSE [match |-> Null, score |-> 0]

\* analyze from its measurements on: getExtensions reads lm[20], which a
\* shorter array does not have.
Measured(lm) ==
    IF lm.n < 21 THEN Raised
    ELSE Classify(GetExtensions(lm), lm.spreadDist,
                  IsThumbIndexTouching(lm))

\* A mutant of Analyze: a frame that takes no letter keeps what the call
\* before returned.
AnalyzeKeepsLast(lm) ==
    LET now == IF lm.n < 21 THEN [match |-> Null, score |-> 0] ELSE Measured(lm)
    IN  IF now.match = Null /\ match.op = "analyze" THEN match.ret ELSE now

\* A mutant of Analyze: no length guard.
AnalyzeNoGuard(lm) == Measured(lm)

Analyze(lm) ==
    IF lm.n < 21 THEN [match |-> Null, score |-> 0]
    ELSE Measured(lm)

\* The 21-point arrays the GestureLogic variant of the hook receives.
LogicLandmarks ==
    [n : {21},
     tipDist : {t \in [LogicFingers -> IndexTipDists] :
                    \A f \in LogicFingers \ {"index"} : t[f] \in TipDists},
     thumbTipToIndex : ThumbTipDists,
     spreadDist : SpreadDists,
     pinchDist : PinchDists]

ShortLandmarks == [n : ShortLengths]

(***************************************************************************)
(* VectorEngine                                                            *)
(*                                                                         *)
(* A 21-point array is kept by the tip-to-wrist distance of each finger    *)
(* (thumb, index, middle, ring, pinky), the knuckle's being 100, and by    *)
(* the five unit vectors extractFeatures yields, in hundredths. Scores are *)
(* in millionths.                                                          *)
(***************************************************************************)
AxisX == <<100, 0, 0>>
AxisY == <<0, 100, 0>>

\* The directions of the five fingers in the hand's basis.
FeatureDirs == <<{AxisX}, {AxisX, AxisY}, {AxisX, AxisY}, {AxisY}, {AxisY}>>

CANONICAL_POSES ==
    << [letter |-> "A", curls |-> <<TRUE, FALSE, FALSE, FALSE, FALSE>>,
        vectors |-> << <<50, 50, 50>>, <<0, -50, 50>>, <<0, -50, 50>>,
                       <<0, -50, 50>>, <<0, -50, 50>> >>],
       [letter |-> "B", curls |-> <<FALSE, TRUE, TRUE, TRUE, TRUE>>,
        vectors |-> << <<-50, 30, 50>>, <<-10, 90, 20>>, <<0, 95, 20>>,
                       <<10, 90, 20>>, <<20, 85, 20>> >>],
       [letter |-> "C", curls |-> <<TRUE, TRUE, TRUE, TRUE, TRUE>>,
        vectors |-> << <<50, 30, 70>>, <<-10, 40, 80>>, <<0, 40, 80>>,
                       <<10, 40, 80>>, <<20, 40, 80>> >>],
       [letter |-> "D", curls |-> <<TRUE, TRUE, FALSE, FALSE, FALSE>>,
        vectors |-> << <<30, 0, 90>>, <<0, 95, 20>>, <<0, 0, 90>>,
                       <<10, 0, 90>>, <<20, 0, 90>> >>],
       [letter |-> "L", curls |-> <<TRUE, TRUE, FALSE, FALSE, FALSE>>,
        vectors |-> << <<90, 30, 20>>, <<0, 95, 20>>, <<0, -30, 80>>,
                       <<10, -30, 80>>, <<20, -30, 80>> >>],
       [letter |-> "O", curls |-> <<TRUE, TRUE, TRUE, TRUE, TRUE>>,
        vectors |-> << <<20, -20, 90>>, <<-10, -20, 90>>, <<0, -20, 90>>,
                       <<10, -20, 90>>, <<20, -20, 90>> >>],
       [letter |-> "V", curls |-> <<FALSE, TRUE, TRUE, FALSE, FALSE>>,
        vectors |-> << <<-50, 0, 70>>, <<-30, 85, 20>>, <<30, 85, 20>>,
                       <<10, -30, 90>>, <<20, -30, 90>> >>],
       [letter |-> "W", curls |-> <<FALSE, TRUE, TRUE, TRUE, FALSE>>,
        vectors |-> << <<-50, 0, 70>>, <<-40, 80, 20>>, <<0, 90, 20>>,
                       <<40, 80, 20>>, <<30, -20, 90>> >>],
       [letter |-> "Y", curls |-> <<TRUE, FALSE, FALSE, FALSE, TRUE>>,
        vectors |-> << <<90, 30, 20>>, <<0, -30, 90>>, <<10, -30, 90>>,
                       <<20, -30, 90>>, <<50, 70, 30>> >>] >>

\* tipDist > mcpDist * 1.1 for the thumb and for the four fingers.
CalculateCurls(lm) ==
    [i \in 1..5 |-> lm.tipDist[i] * 10 > 100 * 11]

\* matches / 5, in millionths.
CalculateCurlMatch(current, target) ==
    (Cardinality({i \in 1..5 : current[i] = target[i]}) * 1000000) \div 5

\* The dot product of two vectors in hundredths, in ten-thousandths.
Dot(a, b) == a[1] * b[1] + a[2] * b[2] + a[3] * b[3]

\* The loop of calculateSimilarity from entry i on, in ten-thousandths.
RECURSIVE SumDots(_, _, _)
SumDots(current, target, i) ==
    IF i > Len(current) THEN 0
    ELSE Dot(current[i], target[i]) + SumDots(current, target, i + 1)

\* (avg + 1) / 2 with avg = totalScore / current.length, in millionths.
CalculateSimilarity(current, target) ==
    IF Len(current) # Len(target) THEN 0
    ELSE LET totalScore == SumDots(current, target, 1) * 100
             avg == totalScore \div Len(current)
         IN  (avg + 1000000) \div 2

\* A mutant of TotalScore: both parts weigh one half.
TotalScoreEqualWeights(features, currentCurls, pose) ==
    (CalculateCurlMatch(currentCurls, pose.curls) * 5
        + CalculateSimilarity(features, pose.vectors) * 5) \div 10

\* curlMatchScore * 0.4 + vectorScore * 0.6 for one pose.
TotalScore(features, currentCurls, pose) ==
    (CalculateCurlMatch(currentCurls, pose.curls) * 4
        + CalculateSimilarity(features, pose.vectors) * 6) \div 10

\* A mutant of Better: a later pose with an equal score replaces the best.
BetterOrEqual(totalScore, bestScore) == totalScore >= bestScore

\* totalScore > bestScore
Better(totalScore, bestScore) == totalScore > bestScore

\* The loop of matchPose over Object.entries(CANONICAL_POSES), from entry i
\* on; best is bestMatch and bestScore so far.
RECURSIVE MatchLoop(_, _, _, _)
MatchLoop(features, currentCurls, i, best) ==
    IF i > Len(CANONICAL_POSES) THEN best
    ELSE LET pose == CANONICAL_POSES[i]
             totalScore == TotalScore(features, currentCurls, pose)
         IN  MatchLoop(features, currentCurls, i + 1,
                 IF Better(totalScore, best.score)
                 THEN [letter |-> pose.letter, score |-> totalScore]
                 ELSE best)

MatchPose(lm) ==
    IF lm.n < 21 THEN [letter |-> Null, score |-> 0]
    ELSE MatchLoop(lm.features, CalculateCurls(lm), 1,
                   [letter |-> Null, score |-> -1000000])

\* The 21-point arrays the VectorEngine variant of the hook receives.
VectorLandmarks ==
    [n : {21},
     tipDist : [1..5 -> TipDists],
     features : {v \in [1..5 -> {AxisX, AxisY}] : \A i \in 1..5 : v[i] \in FeatureDirs[i]}]

(***************************************************************************)
(* useHandTracking                                                         *)
(*                                                                         *)
(* results is the null of useState, a Results without a hand, or a Results *)
(* with one hand: its world landmarks and its handedness score. Of  *)
(* detectionData the model keeps confidence, handCount, bestMatch and      *)
(* similarity.                                                             *)
(***************************************************************************)
Pipelines == {"logic", "hybrid"}

NoResults == [kind |-> "null"]
NoHand == [kind |-> "noHand"]

LogicFrames ==
    {NoHand} \cup [kind : {"hand"}, lm : LogicLandmarks, score : Confidences]
VectorFrames ==
    {NoHand} \cup [kind : {"hand"}, lm : VectorLandmarks, score : Confidences]

\* What the VectorEngine variant reads of the engine's smoothed landmarks
\* on a frame: the PIP angle of the fingers and the thumb's zDiff, for a
\* closed hand and for an open one.
FrameMeasures == {[pipAngle |-> 130, zDiff |-> 30], [pipAngle |-> 160, zDiff |-> -20]}

\* results?.multiHandWorldLandmarks?.[0]
HasHand(r) == r.kind = "hand"

\* What detectionData is without a hand.
Searching == [confidence |-> 0, handCount |-> 0, bestMatch |-> Null, similarity |-> 0]

\* bestMatch of the VectorEngine variant: match.score > 0.6 ? match.letter : null
Accepted(m) == IF m.score > 600000 THEN m.letter ELSE Null

\* The classifications of the index finger on the last frames, as far as
\* their tip-to-wrist distances follow RatioScript, after one more frame.
Follow(hist, tipDist, extended) ==
    IF Len(hist) < Len(RatioScript) /\ tipDist = RatioScript[Len(hist) + 1]
    THEN Append(hist, extended)
    ELSE IF tipDist = RatioScript[1] THEN <<extended>>
    ELSE <<>>

\* The first render of the hook in one of its variants: results is null.
Mount(p) ==
    /\ pipeline = "none"
    /\ pipeline' = p
    /\ results' = NoResults
    /\ detectionData' = Searching
    /\ prevConfidence' = 0
    /\ UNCHANGED <<match, extHist>>
    /\ UNCHANGED <<stableVars, engineVars, otherVars>>

\* onResults of the GestureLogic variant and the render it causes.
OnResultsLogic(detectionResults) ==
    /\ pipeline = "logic"
    /\ results' = detectionResults
    /\ IF HasHand(detectionResults)
       THEN LET wl == detectionResults.lm
            IN  /\ match' = [op |-> "analyze", lm |-> wl, ret |-> Analyze(wl)]
                /\ detectionData' =
                       [confidence |-> detectionResults.score, handCount |-> 1,
                        bestMatch |-> match'.ret.match,
                        similarity |-> match'.ret.score]
                /\ extHist' = Follow(extHist, wl.tipDist["index"],
                                      GetExtensions(wl).index)
       ELSE /\ detectionData' = Searching
            /\ extHist' = <<>>
            /\ UNCHANGED match
    /\ prevConfidence' = detectionData.confidence
    /\ UNCHANGED pipeline
    /\ UNCHANGED <<stableVars, engineVars, otherVars>>

\* onResults of the VectorEngine variant and the render it causes:
\* engine.update, then getFingerState for each finger, getThumbState and
\* matchPose. smoothed holds the measures of the smoothed landmarks.
OnResultsHybrid(detectionResults, smoothed) ==
    /\ pipeline = "hybrid"
    /\ results' = detectionResults
    /\ IF HasHand(detectionResults)
       THEN LET thumb == ThumbStateOf(thumbState, smoothed.zDiff, 10, 2, 2, 160)
                states == [f \in Fingers |->
                              FingerStateOf(LastState(fingerStates, f),
                                            smoothed.pipAngle, 100, 100)]
            IN  /\ landmarks' = TRUE
                /\ worldLandmarks' = TRUE
                /\ fingerStates' = states
                /\ lastReturn' = states
                /\ hystPos' = [f \in Fingers |-> HystStep(hystPos[f], smoothed.pipAngle)]
                /\ thumbState' = thumb
                /\ call' = [op |-> "getThumbState", hand |-> TRUE,
                            zDiff |-> smoothed.zDiff,
                            distToRing |-> 2, distToIndex |-> 2, thumbAngle |-> 160,
                            was |-> thumbState, ret |-> thumb]
                /\ match' = [op |-> "matchPose", lm |-> detectionResults.lm,
                             ret |-> MatchPose(detectionResults.lm)]
                /\ detectionData' =
                       [confidence |-> detectionResults.score, handCount |-> 1,
                        bestMatch |-> Accepted(match'.ret),
                        similarity |-> match'.ret.score]
       ELSE /\ landmarks' = FALSE
            /\ worldLandmarks' = FALSE
            /\ call' = [op |-> "update", hand |-> FALSE]
            /\ detectionData' = Searching
            /\ UNCHANGED <<fingerStates, thumbState, lastReturn, hystPos, match>>
    /\ prevConfidence' = detectionData.confidence
    /\ UNCHANGED <<pipeline, extHist>>
    /\ UNCHANGED <<stableVars, otherVars>>

\* A call of GestureLogic.analyze on its own, no hook being mounted, with an
\* array that is no hand of 21 points.
AnalyzeCall(lm) ==
    /\ pipeline = "none"
    /\ match' = [op |-> "analyze", lm |-> lm, ret |-> Analyze(lm)]
    /\ UNCHANGED <<pipeline, results, detectionData, extHist, prevConfidence>>
    /\ UNCHANGED <<stableVars, engineVars, otherVars>>

\* A call of VectorEngine.matchPose on its own, no hook being mounted, with
\* an array that is no hand of 21 points.
MatchPoseCall(lm) ==
    /\ pipeline = "none"
    /\ match' = [op |-> "matchPose", lm |-> lm, ret |-> MatchPose(lm)]
    /\ UNCHANGED <<pipeline, results, detectionData, extHist, prevConfidence>>
    /\ UNCHANGED <<stableVars, engineVars, otherVars>>

TrackInit ==
    /\ pipeline = "none"
    /\ results = NoResults
    /\ match = [op |-> "none"]
    /\ detectionData = [handCount |-> -1]
    /\ extHist = <<>>
    /\ prevConfidence = 0

(***************************************************************************)
(* App with the consecutive-frame policy                                   *)
(*                                                                         *)
(* Of a frame the model keeps what analyzePose makes of its detectionData: *)
(* the detected letter or null. detectionData is a new object on every     *)
(* Results, so the interpretation effect runs once per frame; it also runs *)
(* when the target letter changes, on the detectionData it already saw.    *)
(***************************************************************************)
\* ALPHABET.length
AlphabetLength == 15

\* The cap of frameCount: a frame or a change of target that would count
\* beyond it is not taken.
MaxFrameCount == 5

\* The body of the interpretation effect for isReady, as the values of
\* lastFrameLetter, frameCount and detectedLetter after it.
Interpret(current, last, count, shown) ==
    LET same == current = last
        c == IF same THEN count + 1 ELSE 0
    IN  [lastFrameLetter |-> current,
         frameCount |-> c,
         detectedLetter |-> IF c >= 3 /\ current # Null THEN current
                            ELSE IF current = Null THEN Null
                            ELSE shown]

\* The interpretation effect with the detection of the current
\* detectionData.
InterpretationEffect(ready, current) ==
    IF ~ready
    THEN UNCHANGED <<detectedLetter, lastFrameLetter, frameCount, shownAt>>
    ELSE LET after == Interpret(current, lastFrameLetter, frameCount, detectedLetter)
         IN  /\ after.frameCount <= MaxFrameCount
             /\ lastFrameLetter' = after.lastFrameLetter
             /\ frameCount' = after.frameCount
             /\ detectedLetter' = after.detectedLetter
             /\ shownAt' = IF /\ after.detectedLetter # detectedLetter
                              /\ after.detectedLetter # Null
                           THEN frameRun' ELSE shownAt

\* A Results arrives: onResults sets results and, the first time, isReady;
\* the render and its interpretation effect follow. What it does to App.
FrameEffect(detection) ==
    /\ isReady' = TRUE
    /\ currentDetection' = detection
    /\ frameRun' = IF frameRun > 0 /\ currentDetection = detection
                   THEN frameRun + 1 ELSE 1
    /\ InterpretationEffect(TRUE, detection)
    /\ UNCHANGED targetIndex

OnFrame(detection) ==
    /\ FrameEffect(detection)
    /\ UNCHANGED <<stableVars, engineVars, trackVars, pureVars, loopVars, basisVars, mlVars>>

\* handleNext and handlePrev: the target letter changes, and with it
\* analyzePose, so the interpretation effect runs again.
HandleTarget(step) ==
    /\ targetIndex' = (targetIndex + step + AlphabetLength) % AlphabetLength
    /\ UNCHANGED <<isReady, currentDetection, frameRun>>
    /\ InterpretationEffect(isReady, currentDetection)
    /\ UNCHANGED <<stableVars, engineVars, trackVars, pureVars, loopVars, basisVars, mlVars>>

\* The same frame given to App's policy and to useStablePrediction with
\* window 3 and threshold 1.0.
PolicyFrame(raw) ==
    /\ FrameEffect(raw)
    /\ RenderEffect(raw, 3, 10)
    /\ UNCHANGED <<engineVars, trackVars, pureVars, loopVars, basisVars, mlVars>>

AppInit ==
    /\ isReady = FALSE
    /\ targetIndex = 0
    /\ currentDetection = Null
    /\ detectedLetter = Null
    /\ lastFrameLetter = Null
    /\ frameCount = 0
    /\ frameRun = 0
    /\ shownAt = 0

(***************************************************************************)
(* GestureLogic.analyze and VectorEngine.matchPose on one instance each,   *)
(* called in any order with any of a few arrays.                           *)
(***************************************************************************)
\* The arrays analyze is called with: a fist, a flat hand, an index finger
\* alone, and an array of 20 points.
LogicProbes ==
    {lm \in LogicLandmarks :
        /\ lm.thumbTipToIndex = 90 /\ lm.spreadDist = 15 /\ lm.pinchDist = 18
        /\ lm.tipDist["index"] # 120
        /\ lm.tipDist["middle"] = lm.tipDist["ring"]
        /\ lm.tipDist["ring"] = lm.tipDist["pinky"]
        /\ (lm.tipDist["index"] = 100 => lm.tipDist["middle"] = 100)}
    \cup {[n |-> 20]}

\* The arrays matchPose is called with: all fingers curled or all extended,
\* index and middle finger along the same axis, and an array of 20 points.
VectorProbes ==
    {lm \in VectorLandmarks :
        /\ \A i \in 1..5 : lm.tipDist[i] = lm.tipDist[1]
        /\ lm.features[2] = lm.features[3]}
    \cup {[n |-> 20]}

\* analyze(lm) on the instance the hook keeps in its state.
PureAnalyze(lm) ==
    LET ret == Analyze(lm)
    IN  /\ match' = [op |-> "analyze", lm |-> lm, ret |-> ret,
                     again |-> returned.analyze[lm] # {}]
        /\ returned' = [returned EXCEPT !.analyze[lm] = @ \cup {ret}]
        /\ UNCHANGED <<pipeline, results, detectionData, extHist, prevConfidence>>
        /\ UNCHANGED <<stableVars, engineVars, appVars, loopVars, basisVars, mlVars>>

\* matchPose(lm) on the instance the hook keeps in its state.
PureMatchPose(lm) ==
    LET ret == MatchPose(lm)
    IN  /\ match' = [op |-> "matchPose", lm |-> lm, ret |-> ret,
                     again |-> returned.matchPose[lm] # {}]
        /\ returned' = [returned EXCEPT !.matchPose[lm] = @ \cup {ret}]
        /\ UNCHANGED <<pipeline, results, detectionData, extHist, prevConfidence>>
        /\ UNCHANGED <<stableVars, engineVars, appVars, loopVars, basisVars, mlVars>>

PureInit ==
    returned = [analyze |-> [lm \in LogicProbes |-> {}],
                matchPose |-> [lm \in VectorProbes |-> {}]]

(***************************************************************************)
(* The detection loop of useHandTracking                                   *)
(*                                                                         *)
(* The effect has the dependency array [videoRef], a ref object that App   *)
(* creates once: it is set up at mount and cleaned up at unmount. The      *)
(* browser runs the timer callback, the animation-frame callbacks and the  *)
(* continuation of a settled send one at a time, in any order.             *)
(***************************************************************************)
\* The number of animation frames the loop may request.
MaxFrames == 8

\* The ids requestAnimationFrame returns.
FrameIds == 1..MaxFrames

\* animationRef.current = requestAnimationFrame(runLoop), pending being the
\* ids whose callback is pending when it is called.
RequestFrame(pending) ==
    /\ nextFrame <= MaxFrames
    /\ frames' = pending \cup {nextFrame}
    /\ animationRef' = nextFrame
    /\ nextFrame' = nextFrame + 1

\* A mutant of RunLoop: the next frame is requested without awaiting send.
RunLoopNoAwait(videoReady, pending) ==
    IF videoReady
    THEN /\ inFlight' = inFlight + 1
         /\ sent' = sent + 1
         /\ RequestFrame(pending)
    ELSE /\ RequestFrame(pending)
         /\ UNCHANGED <<inFlight, sent>>

\* runLoop up to its first suspension: with a video that has data it calls
\* hands.send and awaits it; without one it requests the next frame.
RunLoop(videoReady, pending) ==
    IF videoReady
    THEN /\ inFlight' = inFlight + 1
         /\ sent' = sent + 1
         /\ frames' = pending
         /\ UNCHANGED <<animationRef, nextFrame>>
    ELSE /\ RequestFrame(pending)
         /\ UNCHANGED <<inFlight, sent>>

\* The setTimeout callback: startLoop.
StartLoop(videoReady) ==
    /\ timer
    /\ timer' = FALSE
    /\ RunLoop(videoReady, frames)
    /\ UNCHANGED <<effect, isRunningRef>>
    /\ UNCHANGED <<stableVars, engineVars, trackVars, appVars, pureVars, basisVars, mlVars>>

\* The requestAnimationFrame callback with the given id.
AnimationFrame(id, videoReady) ==
    /\ id \in frames
    /\ RunLoop(videoReady, frames \ {id})
    /\ UNCHANGED <<effect, timer, isRunningRef>>
    /\ UNCHANGED <<stableVars, engineVars, trackVars, appVars, pureVars, basisVars, mlVars>>

\* A send settles, fulfilled or rejected (the catch is empty): runLoop
\* resumes after its await and requests the next frame.
SendSettled ==
    /\ inFlight > 0
    /\ inFlight' = inFlight - 1
    /\ RequestFrame(frames)
    /\ UNCHANGED <<effect, timer, sent, isRunningRef>>
    /\ UNCHANGED <<stableVars, engineVars, trackVars, appVars, pureVars, basisVars, mlVars>>

\* The Hands object delivers the Results of a send that has not settled:
\* onResults, as far as the loop's refs go.
ResultsDelivered ==
    /\ inFlight > 0
    /\ isRunningRef' = TRUE
    /\ UNCHANGED <<effect, timer, frames, animationRef, nextFrame, inFlight, sent>>
    /\ UNCHANGED <<stableVars, engineVars, trackVars, appVars, pureVars, basisVars, mlVars>>

\* The cleanup of the effect at unmount: clearTimeout(timer) and, when
\* animationRef.current is set, cancelAnimationFrame(animationRef.current).
Cleanup ==
    /\ effect = "live"
    /\ effect' = "cleaned"
    /\ timer' = FALSE
    /\ frames' = IF animationRef # 0 THEN frames \ {animationRef} ELSE frames
    /\ UNCHANGED <<animationRef, nextFrame, inFlight, sent, isRunningRef>>
    /\ UNCHANGED <<stableVars, engineVars, trackVars, appVars, pureVars, basisVars, mlVars>>

\* After the mount: the effect has set its timer.
LoopInit ==
    /\ effect = "live"
    /\ timer = TRUE
    /\ frames = {}
    /\ animationRef = 0
    /\ nextFrame = 1
    /\ inFlight = 0
    /\ sent = 0
    /\ isRunningRef = FALSE

(***************************************************************************)
(* VectorEngine.computeHandBasis                                           *)
(*                                                                         *)
(* Points have integer coordinates. A vector of the computation is kept    *)
(* exactly, as an integer triple v and a positive integer m2: it stands    *)
(* for v / sqrt(m2). A difference of two points has m2 = 1.                *)
(***************************************************************************)
\* The coordinates of the wrist and of the two knuckles.
Coords == {-1, 0, 2}
Wrists == {<<0, 0, 0>>, <<1, 0, -1>>}

\* The arrays computeHandBasis is called with, by their points 0, 5 and 17.
BasisLandmarks ==
    [wrist : Wrists,
     indexMcp : Coords \X Coords \X Coords,
     pinkyMcp : Coords \X Coords \X Coords]

NoPoints == [wrist |-> <<>>]
NoBasis == [x |-> <<>>]

Sub(a, b) == [v |-> <<a[1] - b[1], a[2] - b[2], a[3] - b[3]>>, m2 |-> 1]

\* A mutant of Normalize: no "|| 1", the zero vector is divided by its length.
NormalizeNoFallback(a) == [v |-> a.v, m2 |-> Dot(a.v, a.v)]

\* v / mag with mag = Math.sqrt(...) || 1: the zero vector is left as it is.
Normalize(a) ==
    IF Dot(a.v, a.v) = 0 THEN a ELSE [v |-> a.v, m2 |-> Dot(a.v, a.v)]

\* A mutant of Cross: the second term of z has the wrong sign.
CrossWrongSign(a, b) ==
    [v |-> <<a.v[2] * b.v[3] - a.v[3] * b.v[2],
             a.v[3] * b.v[1] - a.v[1] * b.v[3],
             a.v[1] * b.v[2] + a.v[2] * b.v[1]>>,
     m2 |-> a.m2 * b.m2]

Cross(a, b) ==
    [v |-> <<a.v[2] * b.v[3] - a.v[3] * b.v[2],
             a.v[3] * b.v[1] - a.v[1] * b.v[3],
             a.v[1] * b.v[2] - a.v[2] * b.v[1]>>,
     m2 |-> a.m2 * b.m2]

ComputeHandBasis(lm) ==
    LET xAxis == Normalize(Sub(lm.pinkyMcp, lm.indexMcp))
        wristToIndex == Sub(lm.indexMcp, lm.wrist)
        zAxis == Normalize(Cross(xAxis, wristToIndex))
        yAxis == Normalize(Cross(zAxis, xAxis))
    IN  [x |-> xAxis, y |-> yAxis, z |-> zAxis]

\* computeHandBasis(landmarks), as matchPose calls it: one call on one array.
BasisCall(lm) ==
    /\ points = NoPoints
    /\ points' = lm
    /\ basis' = ComputeHandBasis(lm)
    /\ UNCHANGED <<stableVars, engineVars, trackVars, appVars, pureVars, loopVars, mlVars>>

BasisInit ==
    /\ points = NoPoints
    /\ basis = NoBasis

(***************************************************************************)
(* RecognitionService                                                      *)
(*                                                                         *)
(* One object for the whole program (the exported singleton). Its methods  *)
(* run to their first await or to their end without interruption; tf.ready *)
(* and classifier.predictClass settle later, in any order. Numbers between *)
(* 0 and 1 are in hundredths.                                              *)
(***************************************************************************)
\* The number of tensors train and predict may create in one behaviour.
MaxTensors == 3
\* The number of examples one label may get in one behaviour.
MaxExamples == 2

\* The lengths of the landmarks argument, 0 standing for null.
LandmarkCounts == {0, 20, 21}
\* The arguments of setConfidenceThreshold.
ThresholdArgs == {NaN, -50, 0, 60, 100, 150}
\* result.confidences[result.label] of a fulfilled predictClass.
PredictConfidences == {0, 60, 75, 100}
\* How classifier.predictClass settles.
PredictOutcomes ==
    [kind : {"fulfilled"}, label : Labels, confidence : PredictConfidences]
        \cup {[kind |-> "rejected", label |-> Null, confidence |-> 0]}
NoOutcome == [kind |-> "none", label |-> Null, confidence |-> 0]

\* The useMLPrediction instances and the landmark arrays they are given.
Hooks == {1, 2}
LandmarkIds == {1, 2}
\* The instance whose renders and predictions are followed.
PredictHooks == {1}
\* The caller of a predict call: the effect of a hook over an array, or
\* (hook 0) a caller that is no hook.
NoOwner == [hook |-> 0, lm |-> 0]
PredictEntries ==
    [tensor : 0..MaxTensors, hook : {0} \cup Hooks,
     lm : {0} \cup LandmarkIds, cancelled : BOOLEAN]
InitEntries ==
    [hook : Hooks, mounted : BOOLEAN, value : {"true", "false", "pending"}]

MathMin(a, b) == IF a = NaN \/ b = NaN THEN NaN ELSE IF a < b THEN a ELSE b
MathMax(a, b) == IF a = NaN \/ b = NaN THEN NaN ELSE IF a > b THEN a ELSE b
\* a >= b of two numbers
Ge(a, b) == a # NaN /\ b # NaN /\ a >= b

\* classifier.getNumClasses()
NumClasses == Cardinality({l \in Labels : examples[l] > 0})

NoResult == [label |-> Null, confidence |-> 0]
NoPrediction == [label |-> Null, confidence |-> 0, lm |-> 0]

ServiceCall(op, n, ret) ==
    [op |-> op, n |-> n, ret |-> ret, label |-> Null, confidence |-> 0,
     outcome |-> NoOutcome]

\* A mutant of InitializeReturn: without the isReady check.
InitializeReturnNoReadyCheck(ready, initializing) ==
    IF initializing THEN "false" ELSE "pending"

\* What initialize() does before its try block: return true, return false,
\* or go on to await tf.ready().
InitializeReturn(ready, initializing) ==
    IF ready THEN "true" ELSE IF initializing THEN "false" ELSE "pending"

\* initialize() up to its first await, on the fields of the service.
Initialize ==
    LET ret == InitializeReturn(serviceIsReady, isInitializing)
    IN  /\ isInitializing' = IF ret = "pending" THEN TRUE ELSE isInitializing
        /\ svcCall' = ServiceCall("initialize", 0, ret)
        /\ UNCHANGED <<serviceIsReady, classifier, examples, confidenceThreshold,
                       tensors, predicting>>

\* A mutant of TrainAccepts: without the check of the number of landmarks.
TrainAcceptsAnyLength(n) == serviceIsReady /\ classifier # 0

\* The two guards of train.
TrainAccepts(n) == serviceIsReady /\ classifier # 0 /\ n >= 21

\* The three guards of predict.
PredictAccepts(n) ==
    serviceIsReady /\ classifier # 0 /\ NumClasses # 0 /\ n >= 21

\* A mutant of Disposals: dispose() after the try block, not in a finally.
DisposalsAfterTry(path) == IF path = "fulfilled" THEN 1 ELSE 0

\* The dispose() calls on the tensor of a train or predict call whose try
\* block ends the given way ("fulfilled" or "rejected"): the finally block.
Disposals(path) == 1

\* train(landmarks, label) on the fields of the service; throws tells
\* whether classifier.addExample throws.
Train(n, label, throws) ==
    IF ~TrainAccepts(n)
    THEN /\ svcCall' = ServiceCall("train", n, "false")
         /\ UNCHANGED <<examples, tensors>>
    ELSE /\ Len(tensors) < MaxTensors
         /\ throws \/ examples[label] < MaxExamples
         /\ tensors' = Append(tensors,
                              Disposals(IF throws THEN "rejected" ELSE "fulfilled"))
         /\ examples' = IF throws THEN examples
                        ELSE [examples EXCEPT ![label] = @ + 1]
         /\ svcCall' = ServiceCall("train", n, IF throws THEN "throws" ELSE "true")

\* predict(landmarks) up to its first await, for the given caller, others
\* being the predict calls that have not settled.
Predict(n, owner, others) ==
    IF ~PredictAccepts(n)
    THEN /\ svcCall' = ServiceCall("predict", n, "null")
         /\ predicting' =
                IF owner.hook = 0 THEN others
                ELSE others \cup {[tensor |-> 0, hook |-> owner.hook,
                                   lm |-> owner.lm, cancelled |-> FALSE]}
         /\ UNCHANGED tensors
    ELSE /\ Len(tensors) < MaxTensors
         /\ tensors' = Append(tensors, 0)
         /\ predicting' =
                others \cup {[tensor |-> Len(tensors) + 1, hook |-> owner.hook,
                              lm |-> owner.lm, cancelled |-> FALSE]}
         /\ svcCall' = ServiceCall("predict", n, "pending")

\* What predict returns once predictClass has settled.
PredictReturn(outcome, threshold) ==
    IF outcome.kind = "fulfilled" /\ Ge(outcome.confidence, threshold)
    THEN [label |-> outcome.label, confidence |-> outcome.confidence]
    ELSE NoResult

\* Math.max(0, Math.min(1, threshold))
Clamp(threshold) == MathMax(0, MathMin(100, threshold))

(***************************************************************************)
(* useMLPrediction                                                         *)
(*                                                                         *)
(* A render and the effects it runs are one step. A promise callback runs  *)
(* in a later step than the call that made the promise.                    *)
(***************************************************************************)
\* setPrediction(value) and the render it causes: the clear effect has the
\* dependency array [worldLandmarks, prediction].
SetPrediction(h, value) ==
    LET changed == ~(value = NoPrediction /\ prediction[h] = NoPrediction)
    IN  /\ prediction' = [prediction EXCEPT ![h] = value]
        /\ clearTimer' =
               [clearTimer EXCEPT ![h] =
                    IF changed THEN (mlLandmarks[h] = 0 /\ value # NoPrediction)
                    ELSE @]

\* A mutant of Cancel: the cleanup leaves cancelled as it is.
CancelNothing(h) == predicting

\* The cleanup of the prediction effect of hook h: cancelled = true.
Cancel(h) ==
    {IF e.hook = h THEN [e EXCEPT !.cancelled = TRUE] ELSE e : e \in predicting}

\* The prediction effect of hook h, run with the given isReady and
\* worldLandmarks after the cleanup of its previous run.
PredictionEffect(h, ready, wl) ==
    IF ready /\ wl # 0
    THEN Predict(21, [hook |-> h, lm |-> wl], Cancel(h))
    ELSE /\ predicting' = Cancel(h)
         /\ UNCHANGED <<tensors, svcCall>>

\* The mount of instance h: the three effects run, the first one calls
\* RecognitionService.initialize() and attaches its then-callback.
MountHook(h) ==
    /\ ~hookMounted[h]
    /\ hookMounted' = [hookMounted EXCEPT ![h] = TRUE]
    /\ Initialize
    /\ initThen' = initThen \cup
                       {[hook |-> h, mounted |-> TRUE, value |-> svcCall'.ret]}
    /\ UNCHANGED <<mlIsReady, mlLandmarks, prediction, trainingStats, clearTimer>>
    /\ UNCHANGED <<stableVars, engineVars, trackVars, appVars, pureVars, loopVars,
                   basisVars>>

\* The cleanups of instance h, at its unmount: mounted = false,
\* cancelled = true, clearTimeout(timer).
UnmountHook(h) ==
    /\ hookMounted[h]
    /\ hookMounted' = [hookMounted EXCEPT ![h] = FALSE]
    /\ mlIsReady' = [mlIsReady EXCEPT ![h] = FALSE]
    /\ mlLandmarks' = [mlLandmarks EXCEPT ![h] = 0]
    /\ prediction' = [prediction EXCEPT ![h] = NoPrediction]
    /\ clearTimer' = [clearTimer EXCEPT ![h] = FALSE]
    /\ initThen' = {IF e.hook = h THEN [e EXCEPT !.mounted = FALSE] ELSE e :
                        e \in initThen}
    /\ predicting' = Cancel(h)
    /\ UNCHANGED <<serviceIsReady, isInitializing, classifier, examples,
                   confidenceThreshold, tensors, svcCall, trainingStats>>
    /\ UNCHANGED <<stableVars, engineVars, trackVars, appVars, pureVars, loopVars,
                   basisVars>>

\* tf.ready() settles: initialize() resumes after its await, creates the
\* classifier or catches the error, and its promise is resolved.
TfReady(ok) ==
    /\ isInitializing
    /\ classifier' = IF ok THEN classifier + 1 ELSE classifier
    /\ serviceIsReady' = IF ok THEN TRUE ELSE serviceIsReady
    /\ isInitializing' = FALSE
    /\ svcCall' = ServiceCall("initialized", 0, IF ok THEN "true" ELSE "false")
    /\ initThen' = {IF e.value = "pending"
                    THEN [e EXCEPT !.value = svcCall'.ret] ELSE e : e \in initThen}
    /\ UNCHANGED <<examples, confidenceThreshold, tensors, predicting>>
    /\ UNCHANGED <<hookMounted, mlIsReady, mlLandmarks, prediction, trainingStats,
                   clearTimer>>
    /\ UNCHANGED <<stableVars, engineVars, trackVars, appVars, pureVars, loopVars,
                   basisVars>>

\* The then-callback of an initialize() promise that is resolved:
\* if (mounted) setIsReady(ready), and the render that causes.
ThenCallback(e) ==
    /\ e \in initThen
    /\ e.value # "pending"
    /\ initThen' = initThen \ {e}
    /\ IF e.mounted /\ e.value = "true" /\ ~mlIsReady[e.hook]
       THEN /\ mlIsReady' = [mlIsReady EXCEPT ![e.hook] = TRUE]
            /\ PredictionEffect(e.hook, TRUE, mlLandmarks[e.hook])
       ELSE UNCHANGED <<mlIsReady, tensors, predicting, svcCall>>
    /\ UNCHANGED <<serviceIsReady, isInitializing, classifier, examples,
                   confidenceThreshold>>
    /\ UNCHANGED <<hookMounted, mlLandmarks, prediction, trainingStats, clearTimer>>
    /\ UNCHANGED <<stableVars, engineVars, trackVars, appVars, pureVars, loopVars,
                   basisVars>>

\* A render of instance h with another worldLandmarks argument: the
\* prediction effect and the clear effect are cleaned up and run again.
MlRender(h, wl) ==
    /\ hookMounted[h]
    /\ wl # mlLandmarks[h]
    /\ mlLandmarks' = [mlLandmarks EXCEPT ![h] = wl]
    /\ PredictionEffect(h, mlIsReady[h], wl)
    /\ clearTimer' = [clearTimer EXCEPT ![h] =
                          (wl = 0 /\ prediction[h] # NoPrediction)]
    /\ UNCHANGED <<serviceIsReady, isInitializing, classifier, examples,
                   confidenceThreshold>>
    /\ UNCHANGED <<hookMounted, mlIsReady, prediction, trainingStats, initThen>>
    /\ UNCHANGED <<stableVars, engineVars, trackVars, appVars, pureVars, loopVars,
                   basisVars>>

\* classifier.predictClass settles for the predict call e: predict returns
\* (its finally block disposes of the tensor) and, for a call of a hook,
\* runPrediction resumes: if (!cancelled) setPrediction(result).
PredictSettled(e, outcome) ==
    /\ e \in predicting
    /\ e.tensor # 0
    /\ LET result == PredictReturn(outcome, confidenceThreshold)
       IN  /\ tensors' = [tensors EXCEPT ![e.tensor] = @ + Disposals(outcome.kind)]
           /\ predicting' = predicting \ {e}
           /\ svcCall' = [op |-> "predicted", n |-> 21,
                          ret |-> IF result = NoResult THEN "null" ELSE "result",
                          label |-> result.label, confidence |-> result.confidence,
                          outcome |-> outcome]
           /\ IF e.hook # 0 /\ ~e.cancelled
              THEN SetPrediction(e.hook, [label |-> result.label,
                                          confidence |-> result.confidence,
                                          lm |-> IF result = NoResult THEN 0 ELSE e.lm])
              ELSE UNCHANGED <<prediction, clearTimer>>
    /\ UNCHANGED <<serviceIsReady, isInitializing, classifier, examples,
                   confidenceThreshold>>
    /\ UNCHANGED <<hookMounted, mlIsReady, mlLandmarks, trainingStats, initThen>>
    /\ UNCHANGED <<stableVars, engineVars, trackVars, appVars, pureVars, loopVars,
                   basisVars>>

\* runPrediction resumes after a predict call e of a hook that returned
\* null before creating a tensor: if (!cancelled) setPrediction(null).
NullDelivered(e) ==
    /\ e \in predicting
    /\ e.tensor = 0
    /\ predicting' = predicting \ {e}
    /\ IF ~e.cancelled
       THEN SetPrediction(e.hook, NoPrediction)
       ELSE UNCHANGED <<prediction, clearTimer>>
    /\ UNCHANGED <<serviceIsReady, isInitializing, classifier, examples,
                   confidenceThreshold, tensors, svcCall>>
    /\ UNCHANGED <<hookMounted, mlIsReady, mlLandmarks, trainingStats, initThen>>
    /\ UNCHANGED <<stableVars, engineVars, trackVars, appVars, pureVars, loopVars,
                   basisVars>>

\* The setTimeout callback of the clear effect: setPrediction(null).
ClearTimerFires(h) ==
    /\ clearTimer[h]
    /\ SetPrediction(h, NoPrediction)
    /\ UNCHANGED serviceVars
    /\ UNCHANGED <<hookMounted, mlIsReady, mlLandmarks, trainingStats, initThen>>
    /\ UNCHANGED <<stableVars, engineVars, trackVars, appVars, pureVars, loopVars,
                   basisVars>>

\* The train callback of a useMLPrediction instance (it reads no state of
\* the hook): RecognitionService.train, then on success
\* setTrainingStats(RecognitionService.getTrainingStats()).
TrainCallback(n, label, throws) ==
    /\ Train(n, label, throws)
    /\ trainingStats' = IF svcCall'.ret = "true" THEN examples' ELSE trainingStats
    /\ UNCHANGED <<serviceIsReady, isInitializing, classifier, confidenceThreshold,
                   predicting>>
    /\ UNCHANGED <<hookMounted, mlIsReady, mlLandmarks, prediction, initThen,
                   clearTimer>>
    /\ UNCHANGED <<stableVars, engineVars, trackVars, appVars, pureVars, loopVars,
                   basisVars>>

\* A call of RecognitionService.initialize() by a caller that is no hook.
InitializeCall ==
    /\ Initialize
    /\ UNCHANGED hookVars
    /\ UNCHANGED <<stableVars, engineVars, trackVars, appVars, pureVars, loopVars,
                   basisVars>>

\* A call of RecognitionService.predict(landmarks) by a caller that is no
\* hook.
PredictCall(n) ==
    /\ Predict(n, NoOwner, predicting)
    /\ UNCHANGED <<serviceIsReady, isInitializing, classifier, examples,
                   confidenceThreshold>>
    /\ UNCHANGED hookVars
    /\ UNCHANGED <<stableVars, engineVars, trackVars, appVars, pureVars, loopVars,
                   basisVars>>

\* RecognitionService.setConfidenceThreshold(threshold)
SetConfidenceThreshold(threshold) ==
    /\ confidenceThreshold' = Clamp(threshold)
    /\ svcCall' = ServiceCall("setConfidenceThreshold", 0, "void")
    /\ UNCHANGED <<serviceIsReady, isInitializing, classifier, examples, tensors,
                   predicting>>
    /\ UNCHANGED hookVars
    /\ UNCHANGED <<stableVars, engineVars, trackVars, appVars, pureVars, loopVars,
                   basisVars>>

\* RecognitionService.clearAll()
ClearAll ==
    /\ examples' = IF classifier = 0 THEN examples ELSE [l \in Labels |-> 0]
    /\ svcCall' = ServiceCall("clearAll", 0, "void")
    /\ UNCHANGED <<serviceIsReady, isInitializing, classifier, confidenceThreshold,
                   tensors, predicting>>
    /\ UNCHANGED hookVars
    /\ UNCHANGED <<stableVars, engineVars, trackVars, appVars, pureVars, loopVars,
                   basisVars>>

ServiceInit ==
    /\ serviceIsReady = FALSE
    /\ isInitializing = FALSE
    /\ classifier = 0
    /\ examples = [l \in Labels |-> 0]
    /\ confidenceThreshold = 75
    /\ tensors = <<>>
    /\ predicting = {}
    /\ svcCall = ServiceCall("none", 0, "void")

HookInit ==
    /\ hookMounted = [h \in Hooks |-> FALSE]
    /\ mlIsReady = [h \in Hooks |-> FALSE]
    /\ mlLandmarks = [h \in Hooks |-> 0]
    /\ prediction = [h \in Hooks |-> NoPrediction]
    /\ trainingStats = [l \in Labels |-> 0]
    /\ initThen = {}
    /\ clearTimer = [h \in Hooks |-> FALSE]

Init ==
    /\ StableInit /\ EngineInit /\ TrackInit
    /\ AppInit /\ PureInit /\ LoopInit /\ BasisInit
    /\ ServiceInit /\ HookInit

Next ==
    \E raw \in RawPredictions, w \in WindowSizes, t \in Thresholds :
        Render(raw, w, t)

Spec == Init /\ [][Next]_vars

NextEngine ==
    \/ \E hasLandmarks \in BOOLEAN, hasWorld \in BOOLEAN :
           Update(hasLandmarks, hasWorld)
    \/ \E f \in Fingers, pipAngle \in Angles, tipDist \in FoldDists :
           GetFingerState(f, pipAngle, tipDist)
    \/ \E zDiff \in ZDiffs, distToRing \in RingDists,
          distToIndex \in IndexDists, thumbAngle \in ThumbAngles :
           GetThumbState(zDiff, distToRing, distToIndex, thumbAngle)

SpecEngine == Init /\ [][NextEngine]_vars

NextTracking ==
    \/ \E p \in Pipelines : Mount(p)
    \/ \E detectionResults \in LogicFrames : OnResultsLogic(detectionResults)
    \/ \E detectionResults \in VectorFrames, smoothed \in FrameMeasures :
           OnResultsHybrid(detectionResults, smoothed)
    \/ \E lm \in ShortLandmarks : AnalyzeCall(lm)
    \/ \E lm \in ShortLandmarks : MatchPoseCall(lm)

SpecTracking == Init /\ [][NextTracking]_vars

NextApp ==
    \/ \E detection \in RawPredictions : OnFrame(detection)
    \/ \E step \in {-1, 1} : HandleTarget(step)

SpecApp == Init /\ [][NextApp]_vars

NextPolicies == \E raw \in RawPredictions : PolicyFrame(raw)

SpecPolicies == Init /\ [][NextPolicies]_vars

NextPure ==
    \/ \E lm \in LogicProbes : PureAnalyze(lm)
    \/ \E lm \in VectorProbes : PureMatchPose(lm)

SpecPure == Init /\ [][NextPure]_vars

NextLoop ==
    \/ \E videoReady \in BOOLEAN : StartLoop(videoReady)
    \/ \E id \in FrameIds, videoReady \in BOOLEAN : AnimationFrame(id, videoReady)
    \/ SendSettled
    \/ ResultsDelivered
    \/ Cleanup

SpecLoop == Init /\ [][NextLoop]_vars

NextBasis == \E lm \in BasisLandmarks : BasisCall(lm)

SpecBasis == Init /\ [][NextBasis]_vars

NextService ==
    \/ InitializeCall
    \/ \E ok \in BOOLEAN : TfReady(ok)
    \/ \E n \in LandmarkCounts, label \in Labels, throws \in BOOLEAN :
           TrainCallback(n, label, throws)
    \/ \E n \in LandmarkCounts : PredictCall(n)
    \/ \E e \in PredictEntries, outcome \in PredictOutcomes : PredictSettled(e, outcome)
    \/ \E threshold \in ThresholdArgs : SetConfidenceThreshold(threshold)
    \/ ClearAll

SpecService == Init /\ [][NextService]_vars

NextMount ==
    \/ \E h \in Hooks : MountHook(h)
    \/ \E h \in Hooks : UnmountHook(h)
    \/ \E ok \in BOOLEAN : TfReady(ok)
    \/ \E e \in InitEntries : ThenCallback(e)

SpecMount == Init /\ [][NextMount]_vars

NextML ==
    \/ \E h \in PredictHooks : MountHook(h)
    \/ \E h \in PredictHooks : UnmountHook(h)
    \/ \E ok \in BOOLEAN : TfReady(ok)
    \/ \E e \in InitEntries : ThenCallback(e)
    \/ \E h \in PredictHooks, wl \in {0} \cup LandmarkIds : MlRender(h, wl)
    \/ \E e \in PredictEntries, outcome \in PredictOutcomes : PredictSettled(e, outcome)
    \/ \E e \in PredictEntries : NullDelivered(e)
    \/ \E h \in PredictHooks : ClearTimerFires(h)
    \/ \E label \in Labels : TrainCallback(21, label, FALSE)

SpecML == Init /\ [][NextML]_vars

\* The browser runs the callback of a pending timer.
SpecMLFair ==
    Init /\ [][NextML]_vars /\ \A h \in PredictHooks : WF_vars(ClearTimerFires(h))

(***************************************************************************)
(* Properties of useStablePrediction                                       *)
(***************************************************************************)
Occurrences(buf, x) == Cardinality({i \in 1..Len(buf) : buf[i] = x})

\* x holds at least the share threshold (in tenths) of n entries.
Reaches(buf, x, threshold, n) == Occurrences(buf, x) * 10 >= threshold * n

\* C1: once the same non-null raw label has been supplied on at least
\* windowSize consecutive renders, the hook returns that label.
C1_SameLabelBecomesStable ==
    (deps # NoDeps /\ steady /\ deps[1] # Null /\ runLen >= deps[2])
        => stablePrediction = deps[1]

C4_NullDominatesClears ==
    ( /\ ranEffect
      /\ steady
      /\ deps[2] = 5
      /\ deps[3] = 4
      /\ \A l \in Labels : Occurrences(bufferRef, l) < Occurrences(bufferRef, Null)
      /\ Reaches(bufferRef, Null, deps[3], Len(bufferRef)) )
        => stablePrediction = Null

(***************************************************************************)
(* Properties of GestureEngine                                             *)
(***************************************************************************)
FingerCall == call.op = "getFingerState" /\ call.hand
ThumbCall == call.op = "getThumbState" /\ call.hand

\* C5: a finger whose previous call returned Extended is Extended again
\* whenever its PIP angle is above 140; a finger whose state was not
\* Extended becomes Extended only above 155; so the calls above entry,
\* between exit and entry, above entry are Extended all three.
C5_FingerHysteresis ==
    /\ FingerCall =>
          /\ (call.prevReturn = "Extended" /\ Gt(call.pipAngle, 140))
                 => call.ret = "Extended"
          /\ (call.lastState # "Extended" /\ call.ret = "Extended")
                 => Gt(call.pipAngle, 155)
    /\ \A f \in Fingers : hystPos[f] >= 1 => lastReturn[f] = "Extended"

C5_FingerHysteresisWitness ==
    /\ FingerCall
    /\ call.prevReturn = "Extended"
    /\ call.pipAngle = 160
    /\ call.ret = "Extended"
    /\ hystPos[call.finger] = 3

\* C7: an Over thumb stays Over while the crossing geometry holds and
\* zDiff < 0.02, and Over is entered only with zDiff < -0.01; an Under thumb
\* stays Under while it is near the index knuckle and zDiff > -0.01, and
\* Under is entered only with zDiff > 0.02; so with zDiff inside
\* (-0.01, 0.02) a call never turns Over into Under or Under into Over.
C7_ThumbHysteresis ==
    ThumbCall =>
        LET crossing == /\ call.distToRing * 10 < call.distToIndex * 13
                        /\ call.distToRing * 10 < 10 * 9
            nearIndex == call.distToIndex * 10 < 10 * 6
            inBand == call.zDiff > -10 /\ call.zDiff < 20
        IN  /\ (call.was = "Over" /\ crossing /\ call.zDiff < 20) => call.ret = "Over"
            /\ (call.was # "Over" /\ call.ret = "Over") => call.zDiff < -10
            /\ (call.was = "Under" /\ nearIndex /\ call.zDiff > -10) => call.ret = "Under"
            /\ (call.was # "Under" /\ call.ret = "Under") => call.zDiff > 20
            /\ (inBand /\ call.was = "Over") => call.ret # "Under"
            /\ (inBand /\ call.was = "Under") => call.ret # "Over"

\* An Over thumb kept Over by a zDiff that would not have entered Over.
C7_ThumbHysteresisWitness ==
    /\ ThumbCall
    /\ call.was = "Over"
    /\ call.zDiff = 0
    /\ call.ret = "Over"

(***************************************************************************)
(* Properties of useHandTracking, GestureLogic and VectorEngine            *)
(***************************************************************************)
NoMatch == [match |-> Null, score |-> 0]
NoLetter == [letter |-> Null, score |-> 0]

\* The hybrid score of every entry of CANONICAL_POSES for an array.
PoseScores(lm) ==
    [i \in 1..Len(CANONICAL_POSES) |->
        TotalScore(lm.features, CalculateCurls(lm), CANONICAL_POSES[i])]

\* C6: in the GestureLogic variant, when the index finger's ratio is 1.35,
\* 1.2, 1.35 on three consecutive frames, the finger is classified extended
\* on all three.
C6_RatioBandStaysExtended ==
    (pipeline = "logic" /\ Len(extHist) = Len(RatioScript))
        => \A i \in 1..Len(extHist) : extHist[i]

\* C8: analyze and matchPose return null with score 0, and do not raise, for
\* an array of fewer than 21 points; and after a frame without a hand (or
\* before any frame) detectionData has bestMatch null, similarity 0 and
\* confidence 0.
C8_ShortOrAbsentHandNoMatch ==
    /\ (match.op = "analyze" /\ match.lm.n < 21) => match.ret = NoMatch
    /\ (match.op = "matchPose" /\ match.lm.n < 21) => match.ret = NoLetter
    /\ (pipeline # "none" /\ ~HasHand(results)) =>
           /\ detectionData.bestMatch = Null
           /\ detectionData.similarity = 0
           /\ detectionData.confidence = 0

\* analyze was called with 20 points, and then the GestureLogic variant got
\* a frame without a hand.
C8_ShortOrAbsentHandWitness ==
    /\ match.op = "analyze"
    /\ match.lm.n = 20
    /\ match.ret = NoMatch
    /\ pipeline = "logic"
    /\ results = NoHand
    /\ detectionData = Searching

\* C9: in the VectorEngine variant, bestMatch is null when matchPose's score
\* is below 0.6 and is matchPose's letter when the score is 0.6 or more.
C9_AcceptedFromThreshold ==
    (pipeline = "hybrid" /\ HasHand(results)) =>
        /\ match.ret.score < 600000 => detectionData.bestMatch = Null
        /\ match.ret.score >= 600000 => detectionData.bestMatch = match.ret.letter

\* C10: for an array of 21 points matchPose returns an entry of
\* CANONICAL_POSES whose hybrid score no entry exceeds, with that score, and
\* every entry before it in the library's order scores strictly less.
C10_FirstMaximumWins ==
    (match.op = "matchPose" /\ match.lm.n = 21) =>
        LET scores == PoseScores(match.lm)
        IN  \E i \in DOMAIN scores :
                /\ match.ret.letter = CANONICAL_POSES[i].letter
                /\ match.ret.score = scores[i]
                /\ \A j \in DOMAIN scores : scores[j] <= scores[i]
                /\ \A j \in 1..(i - 1) : scores[j] < scores[i]

\* Two entries tie for the maximum and matchPose returns the earlier one.
C10_FirstMaximumWitness ==
    /\ match.op = "matchPose"
    /\ match.lm.n = 21
    /\ LET scores == PoseScores(match.lm)
       IN  \E i \in DOMAIN scores : \E j \in DOMAIN scores :
               /\ i < j
               /\ scores[i] = scores[j]
               /\ scores[i] = match.ret.score
               /\ match.ret.letter = CANONICAL_POSES[i].letter

\* The entry of CANONICAL_POSES for a letter.
PoseOf(letter) ==
    CHOOSE i \in 1..Len(CANONICAL_POSES) : CANONICAL_POSES[i].letter = letter

\* The fraction, in millionths, of the five fingers whose extended state in
\* the array equals the pose's.
CurlScore(lm, pose) ==
    (Cardinality({i \in 1..5 :
        (lm.tipDist[i] * 10 > 100 * 11) = pose.curls[i]}) * 1000000) \div 5

\* (average dot product + 1) / 2 in millionths, the dot products being in
\* ten-thousandths.
DirectionScore(lm, pose) ==
    LET dots == [i \in 1..5 |-> Dot(lm.features[i], pose.vectors[i])]
        sum == dots[1] + dots[2] + dots[3] + dots[4] + dots[5]
    IN  ((sum * 100) \div 5 + 1000000) \div 2

\* C11: for an array of at least 21 points the score matchPose returns is
\* 0.4 * curlScore + 0.6 * directionScore of the pose whose letter it
\* returns, and lies in [0, 1]; no vector of the library is longer than 1,
\* which keeps every directionScore of unit features in [0, 1].
C11_ScoreIsWeightedAndNormalized ==
    /\ \A i \in 1..Len(CANONICAL_POSES) : \A k \in 1..5 :
           Dot(CANONICAL_POSES[i].vectors[k], CANONICAL_POSES[i].vectors[k]) <= 10000
    /\ (match.op = "matchPose" /\ match.lm.n >= 21) =>
           /\ match.ret.letter # Null
           /\ LET pose == CANONICAL_POSES[PoseOf(match.ret.letter)]
              IN  match.ret.score * 10 =
                      4 * CurlScore(match.lm, pose) + 6 * DirectionScore(match.lm, pose)
           /\ match.ret.score >= 0
           /\ match.ret.score <= 1000000

\* matchPose returned a score for which the two parts differ: all five curl
\* states agree with the winning pose, its directions do not.
C11_ScoreWitness ==
    /\ match.op = "matchPose"
    /\ match.lm.n >= 21
    /\ match.ret.letter # Null
    /\ LET pose == CANONICAL_POSES[PoseOf(match.ret.letter)]
       IN  /\ CurlScore(match.lm, pose) = 1000000
           /\ DirectionScore(match.lm, pose) < 1000000
           /\ DirectionScore(match.lm, pose) > 500000

\* The four fingers of an array that analyze classifies as extended.
ExtendedFingers(lm) == {f \in LogicFingers : lm.tipDist[f] * 10 > 100 * 12}

\* C12: when index, middle, ring and pinky are all extended and the thumb
\* tip is close to the index knuckle, analyze returns B with a score of at
\* least 0.6, whatever the distance of the thumb tip to the index tip and
\* the spread are.
C12_FlatHandIsB ==
    ( /\ match.op = "analyze"
      /\ match.lm.n >= 21
      /\ ExtendedFingers(match.lm) = LogicFingers
      /\ match.lm.thumbTipToIndex * 10 <= 100 * 7 )
        => (match.ret.match = "B" /\ match.ret.score >= 600000)

\* C13: when none of index, middle, ring and pinky is extended, analyze
\* returns A with score 1.0 (and so never B), whatever the thumb, the spread
\* and the distance of the thumb tip to the index tip are.
C13_FistIsA ==
    ( /\ match.op = "analyze"
      /\ match.lm.n >= 21
      /\ ExtendedFingers(match.lm) = {} )
        => match.ret = [match |-> "A", score |-> 1000000]

\* A fist whose thumb is not extended and touches the index tip got A.
C13_FistWitness ==
    /\ match.op = "analyze"
    /\ match.lm.n >= 21
    /\ ExtendedFingers(match.lm) = {}
    /\ match.lm.thumbTipToIndex = 50
    /\ match.lm.pinchDist = 10
    /\ match.ret.match = "A"

(***************************************************************************)
(* Properties of App's consecutive-frame policy                            *)
(***************************************************************************)
\* C14: App displays a non-null letter L from the third consecutive frame
\* whose raw detection is L on (no later), and a letter it displays became
\* the displayed letter on the third such frame (not before).
C14_SwitchOnThirdFrame ==
    /\ (isReady /\ currentDetection # Null /\ frameRun >= 3)
           => detectedLetter = currentDetection
    /\ detectedLetter # Null => shownAt = 3

\* C15: after every frame, the letter App's consecutive-frame policy
\* displays is the label useStablePrediction with window 3 and threshold 1.0
\* returns for the same sequence of raw labels.
C15_PoliciesAgree ==
    deps # NoDeps => detectedLetter = stablePrediction

(***************************************************************************)
(* Properties of the stream's loss                                         *)
(***************************************************************************)
\* C16: after update has received a frame without a hand, the smoothed
\* landmarks are cleared, every finger's remembered state is the initial
\* one (no entry, read as Closed) and the thumb's is the initial Side.
C16_StreamLossResetsEngine ==
    (call.op = "update" /\ ~call.hand) =>
        /\ ~landmarks
        /\ ~worldLandmarks
        /\ \A f \in Fingers : LastState(fingerStates, f) = "Closed"
        /\ thumbState = "Side"

\* C17: when a frame without a hand follows a frame that reported a
\* positive confidence, the confidence detectionData reports is still
\* positive, and below the previous one.
C17_ConfidenceDecays ==
    (pipeline # "none" /\ ~HasHand(results) /\ prevConfidence > 0) =>
        /\ detectionData.confidence > 0
        /\ detectionData.confidence < prevConfidence

C19_OneSendInFlight == inFlight <= 1

\* A second frame is in flight, after the first send delivered its Results
\* and settled, and a frame without video data went by.
C19_SecondSendWitness ==
    /\ inFlight = 1
    /\ sent >= 2
    /\ isRunningRef
    /\ nextFrame > sent

(***************************************************************************)
(* Properties of the hand basis                                            *)
(***************************************************************************)
\* The wrist and the two knuckles lie on one line: the 2 x 2 minors of the
\* two differences from the wrist all vanish.
Collinear(lm) ==
    LET a == <<lm.indexMcp[1] - lm.wrist[1], lm.indexMcp[2] - lm.wrist[2],
               lm.indexMcp[3] - lm.wrist[3]>>
        b == <<lm.pinkyMcp[1] - lm.wrist[1], lm.pinkyMcp[2] - lm.wrist[2],
               lm.pinkyMcp[3] - lm.wrist[3]>>
    IN  /\ a[1] * b[2] = a[2] * b[1]
        /\ a[1] * b[3] = a[3] * b[1]
        /\ a[2] * b[3] = a[3] * b[2]

\* The squared length of v / sqrt(m2) is 1.
UnitLength(a) == Dot(a.v, a.v) = a.m2

\* C20: for an array whose wrist, index knuckle and pinky knuckle are not
\* on one line, the x, y and z that computeHandBasis returns have pairwise
\* dot product 0 and length 1 each (in exact arithmetic).
C20_BasisIsOrthonormal ==
    (points.wrist # <<>> /\ ~Collinear(points)) =>
        /\ Dot(basis.x.v, basis.y.v) = 0
        /\ Dot(basis.x.v, basis.z.v) = 0
        /\ Dot(basis.y.v, basis.z.v) = 0
        /\ UnitLength(basis.x)
        /\ UnitLength(basis.y)
        /\ UnitLength(basis.z)

\* A basis of a hand that is not on one line, with a wrist off the origin
\* and no axis along a coordinate axis.
C20_BasisWitness ==
    /\ points.wrist = <<1, 0, -1>>
    /\ ~Collinear(points)
    /\ \A k \in 1..3 : basis.x.v[k] # 0 /\ basis.y.v[k] # 0 /\ basis.z.v[k] # 0
    /\ UnitLength(basis.y)

\* The three vectors computeHandBasis hands to normalize, in call order.
NormalizeArgs ==
    <<Sub(points.pinkyMcp, points.indexMcp),
      Cross(basis.x, Sub(points.indexMcp, points.wrist)),
      Cross(basis.z, basis.x)>>

NormalizeResults == <<basis.x, basis.z, basis.y>>

IsZero(a) == a.v = <<0, 0, 0>>

\* C21: every normalize call divides by a positive number; on the zero
\* vector it returns the zero vector, on any other vector a vector of
\* length 1 (in exact arithmetic).
C21_NormalizeIsZeroSafe ==
    points.wrist # <<>> =>
        \A k \in 1..3 :
            /\ NormalizeResults[k].m2 > 0
            /\ IsZero(NormalizeArgs[k]) => IsZero(NormalizeResults[k])
            /\ ~IsZero(NormalizeArgs[k]) => UnitLength(NormalizeResults[k])

\* A hand on one line with distinct knuckles: the first normalize call gets
\* a vector that is not zero, the second and the third get the zero vector.
C21_ZeroVectorWitness ==
    /\ points.wrist # <<>>
    /\ ~IsZero(NormalizeArgs[1])
    /\ UnitLength(basis.x)
    /\ basis.x.m2 > 1
    /\ IsZero(NormalizeArgs[2])
    /\ IsZero(basis.z)
    /\ IsZero(basis.y)

\* C25: after every update of useStablePrediction the buffer holds at most
\* as many entries as the windowSize passed on that render.
C25_BufferWithinWindow == ranEffect => Len(bufferRef) <= deps[2]

\* C27: once the cleanup of the detection-loop effect has run, no step
\* issues a hands.send and no step requests an animation frame.
C27_LoopStopsAfterCleanup ==
    [][effect = "cleaned" => (sent' = sent /\ nextFrame' = nextFrame)]_vars

\* The letters App offers as targets.
ALPHABET == {"A", "B", "D", "F", "I", "L", "R", "U", "V", "W", "Y"}

\* The labels analyze returns over all hands of 21 points.
AnalyzeLabels == {Analyze(lm).match : lm \in LogicLandmarks} \ {Null}

\* C29: a label analyze returns is a letter of ALPHABET (never S, E, C or
\* O), with score 1.0; a null match has score 0; and every letter of
\* ALPHABET is the label of some hand.
C29_LabelsAreTheAlphabet ==
    match.op = "analyze" =>
        /\ match.ret.match \in ALPHABET \cup {Null}
        /\ match.ret.match # Null => match.ret.score = 1000000
        /\ match.ret.match = Null => match.ret.score = 0
        /\ AnalyzeLabels = ALPHABET

\* analyze returned R for a hand of 21 points whose index and middle
\* fingers alone are extended and close together.
C29_CrossedFingersWitness ==
    /\ match.op = "analyze"
    /\ match.lm.n >= 21
    /\ ExtendedFingers(match.lm) = {"index", "middle"}
    /\ match.ret = [match |-> "R", score |-> 1000000]
    /\ AnalyzeLabels = ALPHABET

(***************************************************************************)
(* Properties of RecognitionService                                        *)
(***************************************************************************)
\* The tensors of the predict calls that have not settled.
HeldTensors == {e.tensor : e \in predicting} \ {0}

\* Each tensor of a call that has completed was disposed of once, each
\* tensor of a predict call that has not settled not yet.
TensorsBalanced ==
    \A i \in 1..Len(tensors) : tensors[i] = IF i \in HeldTensors THEN 0 ELSE 1

\* The step is a train or predict call that the service is not ready for,
\* that has fewer than 21 landmarks, or a predict call without a class.
EarlyReturn ==
    \/ /\ svcCall'.op = "train"
       /\ ~serviceIsReady \/ svcCall'.n < 21
    \/ /\ svcCall'.op = "predict"
       /\ ~serviceIsReady \/ NumClasses = 0 \/ svcCall'.n < 21

\* C22: every tensor train or predict creates is disposed of exactly once
\* before the call completes, whichever way its try block ends, and a call
\* that returns early creates no tensor.
C22_TensorsDisposedOnce ==
    /\ []TensorsBalanced
    /\ [][EarlyReturn => tensors' = tensors]_vars

\* A predict call whose predictClass was rejected has completed, after two
\* other calls that created a tensor, and no predict call is pending.
C22_RejectedPredictWitness ==
    /\ svcCall.op = "predicted"
    /\ svcCall.outcome.kind = "rejected"
    /\ Len(tensors) = MaxTensors
    /\ predicting = {}
    /\ \A i \in 1..Len(tensors) : tensors[i] = 1

\* C23: predict resolves to a result only when predictClass was fulfilled
\* with a confidence that is at least the current threshold, and to null
\* otherwise; the threshold is 0.75 at first and within [0, 1] always.
C23_ResultOnlyFromThreshold ==
    /\ confidenceThreshold \in 0..100
    /\ svcCall.op = "none" => confidenceThreshold = 75
    /\ svcCall.op = "predicted" =>
           /\ svcCall.ret \in {"result", "null"}
           /\ svcCall.ret = "result" <=>
                  /\ svcCall.outcome.kind = "fulfilled"
                  /\ svcCall.outcome.confidence >= confidenceThreshold
           /\ svcCall.ret = "result" =>
                  /\ svcCall.label = svcCall.outcome.label
                  /\ svcCall.confidence = svcCall.outcome.confidence

\* C24: a train call that the service is not ready for or that has fewer
\* than 21 landmarks returns false, such a predict call and a predict call
\* while no class is trained resolve to null, and none of them changes the
\* examples, the tensors, the pending calls, the fields of the service or
\* the hook's training statistics.
C24_RejectedCallsChangeNothing ==
    [][EarlyReturn =>
           /\ svcCall'.ret = IF svcCall'.op = "train" THEN "false" ELSE "null"
           /\ examples' = examples
           /\ trainingStats' = trainingStats
           /\ tensors' = tensors
           /\ predicting' = predicting
           /\ serviceIsReady' = serviceIsReady
           /\ isInitializing' = isInitializing
           /\ classifier' = classifier
           /\ confidenceThreshold' = confidenceThreshold]_vars

\* An initialized service that holds examples has returned false for a
\* train call with 20 landmarks.
C24_ShortTrainWitness ==
    /\ svcCall.op = "train"
    /\ svcCall.n = 20
    /\ svcCall.ret = "false"
    /\ serviceIsReady
    /\ examples["A"] = 1
    /\ trainingStats["A"] = 1

\* C30: isReady and isInitializing are never both true and at most one
\* classifier is created; once isReady is true it stays true and an
\* initialize() call returns true and creates nothing; a failed
\* initialization leaves isReady false and isInitializing false, and an
\* initialize() call in that state starts the initialization again.
C30_InitStateMachine ==
    /\ [](~(serviceIsReady /\ isInitializing))
    /\ [](classifier <= 1)
    /\ [][/\ serviceIsReady => serviceIsReady'
          /\ (serviceIsReady /\ svcCall'.op = "initialize") =>
                 /\ svcCall'.ret = "true"
                 /\ classifier' = classifier
                 /\ ~isInitializing'
          /\ (svcCall'.op = "initialized" /\ svcCall'.ret = "false") =>
                 /\ ~serviceIsReady'
                 /\ ~isInitializing'
          /\ (~serviceIsReady /\ ~isInitializing /\ svcCall'.op = "initialize") =>
                 /\ svcCall'.ret = "pending"
                 /\ isInitializing']_vars

\* initialize() has been called on the initialized service, which holds
\* examples: it returned true and there is one classifier.
C30_SecondInitializeWitness ==
    /\ serviceIsReady
    /\ svcCall.op = "initialize"
    /\ svcCall.ret = "true"
    /\ classifier = 1
    /\ examples["A"] = 1

(***************************************************************************)
(* Properties of useMLPrediction                                           *)
(***************************************************************************)
\* C26: once the initialization has succeeded and every then-callback of
\* an initialize() call has run, every mounted instance has isReady = true
\* (no later step can set it: isReady is set by those callbacks only).
C26_MountedHooksBecomeReady ==
    (serviceIsReady /\ ~isInitializing /\ initThen = {}) =>
        \A h \in Hooks : hookMounted[h] => mlIsReady[h]

\* A step that sets the prediction of h to a result sets it to the result
\* of a predict call issued for the array h is mounted with.
SetFromCurrent(h) ==
    (prediction'[h] # prediction[h] /\ prediction'[h] # NoPrediction) =>
        /\ hookMounted[h]
        /\ mlLandmarks[h] # 0
        /\ prediction'[h].lm = mlLandmarks[h]
        /\ mlLandmarks'[h] = mlLandmarks[h]

\* C28: the prediction of a hook is set to a result only by a predict call
\* issued for its current worldLandmarks while it is mounted, whatever the
\* order in which the pending calls settle; and if worldLandmarks stays
\* null from some step on, the prediction is null from some step on.
C28_OnlyCurrentResults ==
    /\ [][\A h \in PredictHooks : SetFromCurrent(h)]_vars
    /\ \A h \in PredictHooks :
           <>[](mlLandmarks[h] = 0) => <>[](prediction[h] = NoPrediction)

\* The hook shows the result of the call for its current array, and the
\* last predict call to settle, with another label, was discarded.
C28_StaleResultWitness ==
    /\ svcCall.op = "predicted"
    /\ svcCall.ret = "result"
    /\ hookMounted[1]
    /\ mlLandmarks[1] = 2
    /\ prediction[1].lm = 2
    /\ prediction[1].label # Null
    /\ prediction[1].label # svcCall.label

=============================================================================
